---- MODULE Spec2Model ----
(***************************************************************************)
(* Model of src/src/grid.py: the Cell bitset/value state machine, the      *)
(* GridBase container with its reverse lookup, and the Regioning stub.     *)
(***************************************************************************)
EXTENDS Integers, Sequences, FiniteSets, TLC

(***************************************************************************)
(* Bounds                                                                  *)
(***************************************************************************)
\* digits of a lone Cell are drawn from [0, CellSize); values from 1..CellSize
CellSize == 3
\* a GridBase has 1..MaxDimensions axes of extent 1..MaxSize
MaxDimensions == 2
MaxSize == 3
\* block widths/heights and scale factors handed to Regioning are in 1..MaxBlock
MaxBlock == 3

(***************************************************************************)
(* Python integers and their bitwise operators (unbounded, non-negative)   *)
(***************************************************************************)
RECURSIVE BitAnd(_, _)
BitAnd(a, b) ==
    IF a = 0 \/ b = 0 THEN 0
    ELSE (a % 2) * (b % 2) + 2 * BitAnd(a \div 2, b \div 2)

RECURSIVE BitXor(_, _)
BitXor(a, b) ==
    IF a = 0 THEN b
    ELSE IF b = 0 THEN a
    ELSE (((a % 2) + (b % 2)) % 2) + 2 * BitXor(a \div 2, b \div 2)

\* 1 << digit
Shl1(digit) == 2 ^ digit

(***************************************************************************)
(* Cell                                                                    *)
(***************************************************************************)
VARIABLES
    candidates,     \* Cell.candidates
    contingencies,  \* Cell.contingencies
    given,          \* Cell.given
    region,         \* Cell.region
    value,          \* Cell.value
    raised,         \* exception the last Cell call ended in, or "none"
    call,           \* history: the last Cell call and its arguments
    before,         \* history: the two bitsets as they were when that call began
    afterGiven,     \* history: set_given(v) happened and only set_guess since
    again           \* history: the last two calls were the same toggle(d, f);
                    \*          origin = the bitsets before the first of them

cellVars == <<candidates, contingencies, given, region, value,
              raised, call, before, afterGiven, again>>

CANDIDATE == "candidate"
CONTINGENCY == "contingency"
Field == {CANDIDATE, CONTINGENCY}
\* tags that are not Cell.Field literals
OtherTags == {"value"}
Tags == Field \cup OtherTags

\* the value '' of an unfilled cell, and the digits a cell can hold
Empty == ""
DigitValues == {ToString(n) : n \in 1..CellSize}
Values == DigitValues \cup {Empty}
Digits == 0..(CellSize - 1)

Cell__init__ ==
    /\ candidates = 0
    /\ contingencies = 0
    /\ given = FALSE
    /\ region = "None"
    /\ value = Empty

set_given_always(v) ==
    /\ value' = v
    /\ given' = TRUE
    /\ raised' = "none"
    /\ UNCHANGED <<candidates, contingencies, region>>

set_given(v) ==
    /\ value' = v
    /\ given' = (v # Empty)
    /\ raised' = "none"
    /\ UNCHANGED <<candidates, contingencies, region>>

set_guess_unguarded(v) ==
    /\ value' = v
    /\ raised' = "none"
    /\ UNCHANGED <<candidates, contingencies, given, region>>

set_guess(v) ==
    /\ IF ~given THEN value' = v ELSE UNCHANGED value
    /\ raised' = "none"
    /\ UNCHANGED <<candidates, contingencies, given, region>>

\* is_set reads contingencies for every tag other than CANDIDATE
is_set(digit, field) ==
    LET _field == IF field = CANDIDATE THEN candidates ELSE contingencies
    IN  BitAnd(_field, Shl1(digit))

set(digit, field) ==
    LET bit == Shl1(digit) IN
    /\ UNCHANGED <<given, region, value>>
    /\ IF field = CANDIDATE
       THEN /\ candidates' = BitAnd(candidates, bit)
            /\ raised' = "none"
            /\ UNCHANGED contingencies
       ELSE IF field = CONTINGENCY
       THEN /\ contingencies' = BitAnd(contingencies, bit)
            /\ raised' = "none"
            /\ UNCHANGED candidates
       ELSE /\ raised' = "ValueError"
            /\ UNCHANGED <<candidates, contingencies>>

toggle_lenient(digit, field) ==
    LET bit == Shl1(digit) IN
    /\ UNCHANGED <<given, region, value>>
    /\ raised' = "none"
    /\ IF field = CANDIDATE
       THEN /\ candidates' = BitXor(candidates, bit)
            /\ UNCHANGED contingencies
       ELSE /\ contingencies' = BitXor(contingencies, bit)
            /\ UNCHANGED candidates

toggle_or(digit, field) ==
    LET bit == Shl1(digit) IN
    /\ UNCHANGED <<given, region, value>>
    /\ IF field = CANDIDATE
       THEN /\ candidates' = candidates + bit - BitAnd(candidates, bit)
            /\ raised' = "none"
            /\ UNCHANGED contingencies
       ELSE IF field = CONTINGENCY
       THEN /\ contingencies' = contingencies + bit - BitAnd(contingencies, bit)
            /\ raised' = "none"
            /\ UNCHANGED candidates
       ELSE /\ raised' = "ValueError"
            /\ UNCHANGED <<candidates, contingencies>>

toggle(digit, field) ==
    LET bit == Shl1(digit) IN
    /\ UNCHANGED <<given, region, value>>
    /\ IF field = CANDIDATE
       THEN /\ candidates' = BitXor(candidates, bit)
            /\ raised' = "none"
            /\ UNCHANGED contingencies
       ELSE IF field = CONTINGENCY
       THEN /\ contingencies' = BitXor(contingencies, bit)
            /\ raised' = "none"
            /\ UNCHANGED candidates
       ELSE /\ raised' = "ValueError"
            /\ UNCHANGED <<candidates, contingencies>>

clear_inverted(digit, field) ==
    IF is_set(digit, field) = 0
    THEN toggle(digit, field)
    ELSE /\ raised' = "none"
         /\ UNCHANGED <<candidates, contingencies, given, region, value>>

clear(digit, field) ==
    IF is_set(digit, field) # 0
    THEN toggle(digit, field)
    ELSE /\ raised' = "none"
         /\ UNCHANGED <<candidates, contingencies, given, region, value>>

\* ---- history bookkeeping of the calls made on the cell ----
NoCall == [op |-> "__init__", value |-> Empty, digit |-> 0, field |-> CANDIDATE]
Bitsets == [candidates |-> candidates, contingencies |-> contingencies]
NoPair == [twice |-> FALSE, origin |-> [candidates |-> 0, contingencies |-> 0]]

ValueCall(op, v) ==
    /\ call' = [op |-> op, value |-> v, digit |-> 0, field |-> CANDIDATE]
    /\ before' = Bitsets
    /\ again' = NoPair

BitCall(op, digit, field) ==
    /\ call' = [op |-> op, value |-> Empty, digit |-> digit, field |-> field]
    /\ before' = Bitsets
    /\ again' = IF op = "toggle" /\ call.op = "toggle"
                   /\ call.digit = digit /\ call.field = field
                THEN [twice |-> TRUE, origin |-> before]
                ELSE NoPair

CellInit ==
    /\ Cell__init__
    /\ raised = "none"
    /\ call = NoCall
    /\ before = Bitsets
    /\ afterGiven = [active |-> FALSE, v |-> Empty]
    /\ again = NoPair

Call_set_given ==
    \E v \in Values :
        /\ set_given(v)
        /\ ValueCall("set_given", v)
        /\ afterGiven' = [active |-> TRUE, v |-> v]

Call_set_guess ==
    \E v \in Values :
        /\ set_guess(v)
        /\ ValueCall("set_guess", v)
        /\ UNCHANGED afterGiven

Call_set ==
    \E digit \in Digits, field \in Tags :
        /\ set(digit, field)
        /\ BitCall("set", digit, field)
        /\ afterGiven' = [active |-> FALSE, v |-> Empty]

Call_clear ==
    \E digit \in Digits, field \in Tags :
        /\ clear(digit, field)
        /\ BitCall("clear", digit, field)
        /\ afterGiven' = [active |-> FALSE, v |-> Empty]

Call_toggle ==
    \E digit \in Digits, field \in Tags :
        /\ toggle(digit, field)
        /\ BitCall("toggle", digit, field)
        /\ afterGiven' = [active |-> FALSE, v |-> Empty]


(***************************************************************************)
(* GridBase                                                                *)
(***************************************************************************)
VARIABLES
    heap,           \* the CellBase objects created so far; an object's identity
                    \* is its index, its record holds the attribute CellBase.grid
    grids,          \* the GridBase objects by name: dimensions, size, cells
                    \* (cells is the array's flat C-order buffer of references)
    gcall           \* history: the last get_coordinates call and how it ended

gridVars == <<heap, grids, gcall>>

\* Python's None
None == <<>>

GridNames == {"grid", "other"}

\* coordinates np.ndenumerate reports for the k-th element (k from 0) of a
\* C-order array of `dimensions` axes of extent `size`: last axis fastest
unravel(k, dimensions, size) ==
    [axis \in 1..dimensions |-> (k \div (size ^ (dimensions - axis))) % size]

CellBase__init__(grid) == [grid |-> grid]

GridBase__init__shared(self, dimensions, size, objects) ==
    LET n == size ^ dimensions
        made == <<CellBase__init__(self)>>
    IN  [heap |-> objects \o made,
         grid |-> [dimensions |-> dimensions,
                   size |-> size,
                   cells |-> [k \in 1..n |-> Len(objects) + 1]]]

\* np.empty, then one cell_type(self) per slot in iteration order
GridBase__init__(self, dimensions, size, objects) ==
    LET n == size ^ dimensions
        made == [k \in 1..n |-> CellBase__init__(self)]
    IN  [heap |-> objects \o made,
         grid |-> [dimensions |-> dimensions,
                   size |-> size,
                   cells |-> [k \in 1..n |-> Len(objects) + k]]]

\* np.ndenumerate(self.cells): the (coordinates, cell) pairs in C order
enumerator(g) ==
    [k \in 1..Len(g.cells) |-> <<unravel(k - 1, g.dimensions, g.size), g.cells[k]>>]

get_coordinates_no_raise(g, target) ==
    LET pairs == enumerator(g)
        n == Len(g.cells)
        RECURSIVE loop(_)
        loop(i) ==
            IF i > n
            THEN [raised |-> "none", result |-> None, examined |-> n]
            ELSE IF pairs[i][2] = target
            THEN [raised |-> "none", result |-> pairs[i][1], examined |-> i]
            ELSE loop(i + 1)
    IN  loop(1)

\* loop(i) is the for loop from its i-th pair on; CellBase defines no __eq__,
\* so cell == target compares identities; examined counts the pairs compared
get_coordinates(g, target) ==
    LET pairs == enumerator(g)
        n == Len(g.cells)
        RECURSIVE loop(_)
        loop(i) ==
            IF i > n
            THEN [raised |-> "KeyError", result |-> None, examined |-> n]
            ELSE IF pairs[i][2] = target
            THEN [raised |-> "none", result |-> pairs[i][1], examined |-> i]
            ELSE loop(i + 1)
    IN  loop(1)

NoGridCall == [op |-> "__init__", self |-> "grid", target |-> 0,
               raised |-> "none", result |-> None, examined |-> 0,
               cells |-> <<>>]

\* two grids built one after the other, each of any bounded shape
GridInit ==
    \E d1 \in 1..MaxDimensions, s1 \in 1..MaxSize,
       d2 \in 1..MaxDimensions, s2 \in 1..MaxSize :
        LET first == GridBase__init__("grid", d1, s1, <<>>)
            second == GridBase__init__("other", d2, s2, first.heap)
        IN  /\ heap = second.heap
            /\ grids = [name \in GridNames |->
                          IF name = "grid" THEN first.grid ELSE second.grid]
            /\ gcall = NoGridCall

\* nothing constructed (the module has only been imported)
GridIdle ==
    /\ heap = <<>>
    /\ grids = <<>>
    /\ gcall = NoGridCall

Call_get_coordinates ==
    \E self \in GridNames, target \in 1..Len(heap) :
        LET r == get_coordinates(grids[self], target) IN
        /\ gcall' = [op |-> "get_coordinates", self |-> self, target |-> target,
                     raised |-> r.raised, result |-> r.result,
                     examined |-> r.examined, cells |-> grids[self].cells]
        /\ UNCHANGED <<heap, grids>>

(***************************************************************************)
(* Regioning                                                               *)
(***************************************************************************)
VARIABLES
    regular,        \* Regioning.regular
    _size,          \* Regioning._size
    rcall           \* history: the last Regioning call and how it ended

regVars == <<regular, _size, rcall>>

Blocks == (1..MaxBlock) \X (1..MaxBlock)
Extras == (0..1) \X (0..1)
Files == {"irregular.txt", "jigsaw.txt"}

NoRegCall == [op |-> "__init__", file |-> "", scale |-> None, extra |-> None,
              raised |-> "none", result |-> None,
              self |-> [regular |-> TRUE, _size |-> None]]

Regioning__init__(r, size) ==
    /\ regular = r
    /\ _size = IF r THEN <<3, 3>> ELSE size

\* the lambda Regioning.size hands to formula
size_lambda(ss, s, e) == (ss * s) + e

\* tuple_util.formula with that lambda: it is applied axis by axis
formula(a, b, c) ==
    [axis \in 1..Len(a) |-> size_lambda(a[axis], b[axis], c[axis])]

size(scale, extra) == formula(_size, scale, extra)

load_raises(file) ==
    [raised |-> "NotImplementedError", result |-> None]

\* the body is `pass`: the call returns None
load(file) ==
    [raised |-> "none", result |-> None]

RegInit ==
    /\ \E r \in BOOLEAN, sz \in Blocks \cup {None} : Regioning__init__(r, sz)
    /\ rcall = NoRegCall

\* the Regioning() built as Grid.__init__'s default argument
RegIdle ==
    /\ Regioning__init__(TRUE, None)
    /\ rcall = NoRegCall

Call_load ==
    \E file \in Files :
        LET r == load(file) IN
        /\ rcall' = [op |-> "load", file |-> file, scale |-> None, extra |-> None,
                     raised |-> r.raised, result |-> r.result,
                     self |-> [regular |-> regular, _size |-> _size]]
        /\ UNCHANGED <<regular, _size>>

\* formula's handling of _size = None is not part of grid.py; size is called
\* on regionings that have a block size
Call_size ==
    \E scale \in Blocks, extra \in Extras :
        /\ _size # None
        /\ rcall' = [op |-> "size", file |-> "", scale |-> scale, extra |-> extra,
                     raised |-> "none", result |-> size(scale, extra),
                     self |-> [regular |-> regular, _size |-> _size]]
        /\ UNCHANGED <<regular, _size>>

(***************************************************************************)
(* Specifications                                                          *)
(***************************************************************************)
vars == <<cellVars, gridVars, regVars>>

CellNext ==
    \/ Call_set_given /\ UNCHANGED <<gridVars, regVars>>
    \/ Call_set_guess /\ UNCHANGED <<gridVars, regVars>>
    \/ Call_set /\ UNCHANGED <<gridVars, regVars>>
    \/ Call_clear /\ UNCHANGED <<gridVars, regVars>>
    \/ Call_toggle /\ UNCHANGED <<gridVars, regVars>>

GridNext ==
    Call_get_coordinates /\ UNCHANGED <<cellVars, regVars>>

RegNext ==
    \/ Call_load /\ UNCHANGED <<cellVars, gridVars>>
    \/ Call_size /\ UNCHANGED <<cellVars, gridVars>>

\* a fresh Cell under a stream of calls
InitCell == CellInit /\ GridIdle /\ RegIdle
SpecCell == InitCell /\ [][CellNext]_vars

\* two constructed grids under a stream of reverse lookups
InitGrid == CellInit /\ GridInit /\ RegIdle
SpecGrid == InitGrid /\ [][GridNext]_vars

\* a constructed Regioning under a stream of calls
InitRegioning == CellInit /\ GridIdle /\ RegInit
SpecRegioning == InitRegioning /\ [][RegNext]_vars

(***************************************************************************)
(* Properties of Cell (checked under SpecCell)                             *)
(***************************************************************************)
\* the bitset of a snapshot that a Cell.Field literal selects
Selected(bits, field) ==
    IF field = CANDIDATE THEN bits.candidates ELSE bits.contingencies

\* C1: in every state reachable from a fresh Cell by set_given, set_guess,
\* set, clear and toggle calls, a given cell holds a concrete digit, never ''.
C1_GivenHoldsDigit == given => value \in DigitValues

\* a given cell on which a guess of another value has just been attempted
C1_Witness == given /\ call.op = "set_guess" /\ call.value # value

\* C2 (as claimed): after set_given(v), for every value v, any run of
\* set_guess calls leaves value = v.
C2_GuessAfterGivenKeepsValue == afterGiven.active => value = afterGiven.v

\* C2 (amended): after set_given(v) with v a digit (not ''), any run of
\* set_guess calls leaves value = v and the cell given.
C2_GuessAfterGivenDigitKeepsValue ==
    (afterGiven.active /\ afterGiven.v # Empty) =>
        (value = afterGiven.v /\ given)

\* set_given(v) with a digit, then a guess of a different value
C2_Witness ==
    /\ afterGiven.active
    /\ afterGiven.v # Empty
    /\ call.op = "set_guess"
    /\ call.value # afterGiven.v

\* C3: after set(d, f) with f a Field literal, bit d of the selected bitset
\* is set, i.e. is_set(d, f) is non-zero.
C3_SetMarksDigit ==
    (call.op = "set" /\ call.field \in Field) =>
        is_set(call.digit, call.field) # 0

\* C4: after clear(d, f) with f a Field literal, is_set(d, f) is zero,
\* whether or not the bit was set before.
C4_ClearLeavesBitClear ==
    (call.op = "clear" /\ call.field \in Field) =>
        is_set(call.digit, call.field) = 0

\* a clear of a bit that was set when the call began
C4_Witness ==
    /\ call.op = "clear"
    /\ call.field \in Field
    /\ BitAnd(Selected(before, call.field), Shl1(call.digit)) # 0

\* C5: toggle(d, f) with a tag f that is no Field literal ends in ValueError
\* and leaves candidates and contingencies as they were.
C5_ToggleRejectsOtherTags ==
    (call.op = "toggle" /\ call.field \notin Field) =>
        (raised = "ValueError" /\ Bitsets = before)

\* such a toggle on a cell whose two bitsets are both non-empty
C5_Witness ==
    /\ call.op = "toggle"
    /\ call.field \notin Field
    /\ candidates # 0
    /\ contingencies # 0

\* C6: clear(d, f) with a tag f that is no Field literal ends in ValueError
\* in every cell state, also when bit d of contingencies is 0.
C6_ClearRejectsOtherTags ==
    (call.op = "clear" /\ call.field \notin Field) => raised = "ValueError"

\* C10: toggle(d, f) called twice in a row with a Field literal f restores
\* the selected bitset to what it was before the first of the two calls.
C10_ToggleTwiceRestores ==
    (again.twice /\ call.field \in Field) =>
        Selected(Bitsets, call.field) = Selected(again.origin, call.field)

\* two identical toggles in a row on a non-empty bitset, the bit clear at first
C10_Witness ==
    /\ again.twice
    /\ call.field \in Field
    /\ Selected(again.origin, call.field) # 0
    /\ BitAnd(Selected(again.origin, call.field), Shl1(call.digit)) = 0

Looked == gcall.op = "get_coordinates"

\* target is stored in some slot of the buffer
Stored(cells, target) == \E k \in 1..Len(cells) : cells[k] = target

\* C8: for every (coordinates, cell) pair of a grid's enumerator,
\* get_coordinates(cell) returns exactly those coordinates, and construction
\* has stored a distinct cell in every slot.
C8_GetCoordinatesInvertsEnumerator ==
    /\ \A name \in GridNames :
         LET cells == grids[name].cells IN
         Cardinality({cells[k] : k \in 1..Len(cells)}) = Len(cells)
    /\ Looked =>
         LET pairs == enumerator(grids[gcall.self]) IN
         \A k \in 1..Len(pairs) :
            pairs[k][2] = gcall.target =>
                (gcall.raised = "none" /\ gcall.result = pairs[k][1])

\* a lookup of a cell that is not the first of a two-dimensional grid
C8_Witness ==
    /\ Looked
    /\ Stored(grids[gcall.self].cells, gcall.target)
    /\ grids[gcall.self].dimensions = 2
    /\ gcall.examined > 1
    /\ gcall.result # None

\* C9: get_coordinates with a cell that is not stored in the grid scans the
\* whole enumeration, ends in KeyError without returning coordinates, and
\* leaves the grid's cells unchanged.
C9_ForeignCellNotFound ==
    (Looked /\ ~Stored(gcall.cells, gcall.target)) =>
        /\ gcall.raised = "KeyError"
        /\ gcall.result = None
        /\ gcall.examined = Len(gcall.cells)
        /\ grids[gcall.self].cells = gcall.cells

\* a lookup, in a grid of several cells, of a cell of the other grid
C9_Witness ==
    /\ Looked
    /\ heap[gcall.target].grid # gcall.self
    /\ Len(gcall.cells) > 1
    /\ gcall.raised = "KeyError"
====
